---- MODULE Spec2Model ----
(***************************************************************************)
(* State-machine model of scripts/convert_to_coco.py: the conversion of a  *)
(* folder dataset (images, per-image CSV boxes, labelmap.json, split       *)
(* lists) into one COCO document per split.                                *)
(*                                                                         *)
(* Text is modelled as a sequence of one-character strings, so that        *)
(* stripping, slicing, suffix matching, concatenation and sorting are      *)
(* computed as Python computes them.  Numbers parsed by float() are kept   *)
(* exactly as a mantissa and a count of fractional digits.                 *)
(***************************************************************************)
EXTENDS Integers, Sequences, FiniteSets, TLC

(***************************************************************************)
(* Bounds of the model                                                     *)
(***************************************************************************)
MaxFiles == 2
MaxLines == 2
MaxRows == 2
MaxLabels == 2
MaxRuns == 2

(***************************************************************************)
(* Text helpers                                                            *)
(***************************************************************************)
\* Characters in ascending code-point order (the order Python's sorted()
\* uses on str); only the characters the model's inputs contain.
Alphabet ==
  <<" ", "-", ".", "0", "1", "2", "3", "4", "5", "9",
    "B", "G", "J", "M", "N", "P", "a", "b", "g", "j", "m", "n", "p", "x">>

Code(c) == CHOOSE i \in 1..Len(Alphabet) : Alphabet[i] = c

RECURSIVE StrLess(_, _)
StrLess(s, t) ==
  IF t = <<>> THEN FALSE
  ELSE IF s = <<>> THEN TRUE
  ELSE IF Head(s) = Head(t) THEN StrLess(Tail(s), Tail(t))
  ELSE Code(Head(s)) < Code(Head(t))

\* sorted(S) for a set of str
RECURSIVE Sorted(_)
Sorted(S) ==
  IF S = {} THEN <<>>
  ELSE LET m == CHOOSE x \in S : \A y \in S \ {x} : StrLess(x, y)
       IN <<m>> \o Sorted(S \ {m})

EndsWith(s, suf) ==
  /\ Len(s) >= Len(suf)
  /\ SubSeq(s, Len(s) - Len(suf) + 1, Len(s)) = suf

\* str.strip(): leading and trailing whitespace removed
RECURSIVE LStrip(_)
LStrip(s) == IF s # <<>> /\ Head(s) = " " THEN LStrip(Tail(s)) ELSE s

RECURSIVE RStrip(_)
RStrip(s) ==
  IF s # <<>> /\ s[Len(s)] = " " THEN RStrip(SubSeq(s, 1, Len(s) - 1)) ELSE s

Strip(s) == RStrip(LStrip(s))

\* PurePath.stem: the final component without its last suffix; a name whose
\* only dot is the leading one has no suffix.
LastDot(name) ==
  IF \E i \in 1..Len(name) : name[i] = "."
  THEN CHOOSE i \in 1..Len(name) :
         /\ name[i] = "."
         /\ \A j \in (i + 1)..Len(name) : name[j] # "."
  ELSE 0

PathStem(name) ==
  IF LastDot(name) > 1 /\ LastDot(name) < Len(name)
  THEN SubSeq(name, 1, LastDot(name) - 1)
  ELSE name

(***************************************************************************)
(* float() and int() on a CSV cell                                         *)
(***************************************************************************)
Digits == <<"0", "1", "2", "3", "4", "5", "6", "7", "8", "9">>

IsDigit(c) == \E i \in 1..10 : Digits[i] = c

DigitVal(c) == (CHOOSE i \in 1..10 : Digits[i] = c) - 1

RECURSIVE DigitsVal(_)
DigitsVal(s) ==
  IF s = <<>> THEN 0
  ELSE DigitsVal(SubSeq(s, 1, Len(s) - 1)) * 10 + DigitVal(s[Len(s)])

AllDigits(s) == \A i \in 1..Len(s) : IsDigit(s[i])

Unsigned(s) == IF s # <<>> /\ Head(s) \in {"-", "+"} THEN Tail(s) ELSE s

Sign(s) == IF s # <<>> /\ Head(s) = "-" THEN -1 ELSE 1

DropDot(s) ==
  IF LastDot(s) = 0 THEN s
  ELSE SubSeq(s, 1, LastDot(s) - 1) \o SubSeq(s, LastDot(s) + 1, Len(s))

\* int(text): optional surrounding whitespace, optional sign, decimal digits
IsIntText(s) ==
  LET u == Unsigned(Strip(s)) IN u # <<>> /\ AllDigits(u)

\* float(text): as int, with at most one decimal point
IsFloatText(s) ==
  LET u == Unsigned(Strip(s)) IN
    /\ DropDot(u) # <<>>
    /\ AllDigits(DropDot(u))

\* The value m / 10^e
FloatVal(s) ==
  LET u == Unsigned(Strip(s)) IN
    [m |-> Sign(Strip(s)) * DigitsVal(DropDot(u)),
     e |-> IF LastDot(u) = 0 THEN 0 ELSE Len(u) - LastDot(u)]

IntVal(s) == Sign(Strip(s)) * DigitsVal(Unsigned(Strip(s)))

\* float(0), the default of row.get(key, 0)
FloatZero == [m |-> 0, e |-> 0]

Positive(v) == v.m > 0

Times(v, w) == [m |-> v.m * w.m, e |-> v.e + w.e]

(***************************************************************************)
(* parse_csv_boxes                                                         *)
(***************************************************************************)
\* A CSV file is [header |-> <<column names>>, rows |-> <<rows>>], a row
\* being the sequence of its cells.  csv.DictReader maps each header name
\* to the cell at the same position, and to None when the row is shorter
\* than the header; cells beyond the header are kept under the key None.
ColumnOf(header, key) == CHOOSE i \in 1..Len(header) : header[i] = key

\* row.get(key, default)
RowGet(header, row, key) ==
  IF \A i \in 1..Len(header) : header[i] # key
  THEN [kind |-> "default", text |-> <<>>]
  ELSE IF ColumnOf(header, key) <= Len(row)
       THEN [kind |-> "text", text |-> row[ColumnOf(header, key)]]
       ELSE [kind |-> "None", text |-> <<>>]

\* What float(row.get(key, 0)) does: a value, ValueError or TypeError
FloatOutcome(g) ==
  IF g.kind = "default" THEN "ok"
  ELSE IF g.kind = "None" THEN "TypeError"
  ELSE IF IsFloatText(g.text) THEN "ok" ELSE "ValueError"

\* What int(row.get('label', 1)) does
IntOutcome(g) ==
  IF g.kind = "default" THEN "ok"
  ELSE IF g.kind = "None" THEN "TypeError"
  ELSE IF IsIntText(g.text) THEN "ok" ELSE "ValueError"

FloatOf(g) == IF g.kind = "default" THEN FloatZero ELSE FloatVal(g.text)

LabelOf(g) == IF g.kind = "default" THEN 1 ELSE IntVal(g.text)

\* The five conversions of the try block, in statement order; the first
\* one that raises decides the exception.
FieldOutcomes(header, row) ==
  << FloatOutcome(RowGet(header, row, "x")),
     FloatOutcome(RowGet(header, row, "y")),
     FloatOutcome(RowGet(header, row, "width")),
     FloatOutcome(RowGet(header, row, "height")),
     IntOutcome(RowGet(header, row, "label")) >>

RowOutcome(header, row) ==
  LET o == FieldOutcomes(header, row) IN
    IF \A i \in 1..5 : o[i] = "ok" THEN "ok"
    ELSE o[CHOOSE i \in 1..5 : o[i] # "ok" /\ \A j \in 1..(i - 1) : o[j] = "ok"]

\* A size test that looks at the width only
BoxValidWidthOnly(width, height) == Positive(width)

\* if width > 0 and height > 0
BoxValid(width, height) == Positive(width) /\ Positive(height)

RowBox(header, row) ==
  LET x == FloatOf(RowGet(header, row, "x"))
      y == FloatOf(RowGet(header, row, "y"))
      width == FloatOf(RowGet(header, row, "width"))
      height == FloatOf(RowGet(header, row, "height"))
      label == LabelOf(RowGet(header, row, "label"))
  IN [bbox |-> <<x, y, width, height>>,
      area |-> Times(width, height),
      category_id |-> label]

\* The loop over the reader.  except (ValueError, KeyError) skips the row;
\* any other exception leaves the function.  DictReader itself drops rows
\* with no cells (blank lines).
RECURSIVE ParseRows(_, _, _)
ParseRows(header, rows, boxes) ==
  IF rows = <<>> THEN [raised |-> FALSE, boxes |-> boxes]
  ELSE LET row == Head(rows) IN
    IF row = <<>> THEN ParseRows(header, Tail(rows), boxes)
    ELSE IF RowOutcome(header, row) = "TypeError"
         THEN [raised |-> TRUE, boxes |-> <<>>]
    ELSE IF RowOutcome(header, row) = "ValueError"
         THEN ParseRows(header, Tail(rows), boxes)
    ELSE IF BoxValid(RowBox(header, row).bbox[3], RowBox(header, row).bbox[4])
         THEN ParseRows(header, Tail(rows), Append(boxes, RowBox(header, row)))
    ELSE ParseRows(header, Tail(rows), boxes)

\* A parser for which a missing CSV file is an error
parse_csv_boxes_required(csv_file) ==
  IF ~csv_file.exists THEN [raised |-> TRUE, boxes |-> <<>>]
  ELSE ParseRows(csv_file.header, csv_file.rows, <<>>)

parse_csv_boxes(csv_file) ==
  IF ~csv_file.exists THEN [raised |-> FALSE, boxes |-> <<>>]
  ELSE ParseRows(csv_file.header, csv_file.rows, <<>>)

(***************************************************************************)
(* read_split_list and load_labelmap                                       *)
(***************************************************************************)
\* A split file is [exists, lines], lines being the sequence of its lines.
read_split_list(split_file) ==
  IF ~split_file.exists THEN <<>>
  ELSE LET lines == [i \in 1..Len(split_file.lines) |-> Strip(split_file.lines[i])]
       IN SelectSeq(lines, LAMBDA line : line # <<>>)

\* A label map file is [exists, items], items being a sequence of
\* [label_id, object_name]; the result is a dict, here a function from the
\* label ids kept.  A later entry with the same label_id overwrites an
\* earlier one.
\* A loader that keeps the background entry
KeepsEveryLabel(item) == TRUE

KeepsLabel(item) == item.object_name # "background"

load_labelmap(labelmap_file) ==
  IF ~labelmap_file.exists THEN [id \in {} |-> ""]
  ELSE LET items == labelmap_file.items
           kept == {i \in 1..Len(items) : KeepsLabel(items[i])}
           ids == {items[i].label_id : i \in kept}
           last(id) == CHOOSE i \in kept :
                          /\ items[i].label_id = id
                          /\ \A j \in kept : items[j].label_id = id => j <= i
       IN [id \in ids |-> items[last(id)].object_name]

\* A supercategory that keeps the trailing "s"
SupercategoryUnstripped(category_name) == category_name

\* category_name[:-1] if category_name.endswith('s') else category_name
Supercategory(category_name) ==
  IF EndsWith(category_name, <<"s">>)
  THEN SubSeq(category_name, 1, Len(category_name) - 1)
  ELSE category_name

\* for label_id, name in sorted(id_to_name.items()): categories.append(...)
RECURSIVE CategoryList(_, _, _)
CategoryList(id_to_name, ids, category_name) ==
  IF ids = {} THEN <<>>
  ELSE LET label_id == CHOOSE i \in ids : \A j \in ids : i <= j
       IN <<[id |-> label_id,
             name |-> id_to_name[label_id],
             supercategory |-> Supercategory(category_name)]>>
          \o CategoryList(id_to_name, ids \ {label_id}, category_name)

(***************************************************************************)
(* The dataset on disk                                                     *)
(***************************************************************************)
\* category_name = "strawberries"
CategoryName == <<"s", "t", "r", "a", "w", "b", "e", "r", "r", "i", "e", "s">>

\* choices=["train", "val", "test"]
SplitChoices == {"train", "val", "test"}

\* default=["train", "val", "test"]
DefaultSplits == <<"train", "val", "test">>

ExtJpg == <<".", "j", "p", "g">>
ExtJPG == <<".", "J", "P", "G">>
ExtPng == <<".", "p", "n", "g">>
ExtPNG == <<".", "P", "N", "G">>
ExtBmp == <<".", "b", "m", "p">>
ExtBMP == <<".", "B", "M", "P">>
ExtCsv == <<".", "c", "s", "v">>

\* The four glob patterns *.jpg, *.JPG, *.png, *.PNG
GlobSuffixes == {ExtJpg, ExtJPG, ExtPng, ExtPNG}

\* for ext in ['.jpg', '.JPG', '.png', '.PNG', '.bmp', '.BMP']
ResolveExts == <<ExtJpg, ExtJPG, ExtPng, ExtPNG, ExtBmp, ExtBMP>>

\* images_dir.glob("*" + suffix) on the names of a directory
Glob(names, suffix) == {n \in names : EndsWith(n, suffix)}

\* subcat_images: the stems of the files the four patterns match
SubcatImages(names) ==
  {PathStem(n) : n \in UNION {Glob(names, suffix) : suffix \in GlobSuffixes}}

\* A selection that ignores the split list
SelectedStemsUnfiltered(image_stems, subcat_images) == Sorted(subcat_images)

\* sorted(image_stems & subcat_images)
SelectedStems(image_stems, subcat_images) ==
  Sorted(image_stems \cap subcat_images)

\* The first existing images_dir / f"{stem}{ext}", or <<>> for None
Resolve(names, stem) ==
  IF \E i \in 1..Len(ResolveExts) : (stem \o ResolveExts[i]) \in names
  THEN stem \o ResolveExts[CHOOSE i \in 1..Len(ResolveExts) :
                 /\ (stem \o ResolveExts[i]) \in names
                 /\ \A j \in 1..(i - 1) : (stem \o ResolveExts[j]) \notin names]
  ELSE <<>>

\* annotations_dir / f"{stem}.csv" as parse_csv_boxes sees it
CsvFile(csv_dir, stem) ==
  IF (stem \o ExtCsv) \in DOMAIN csv_dir
  THEN [exists |-> TRUE,
        header |-> csv_dir[stem \o ExtCsv].header,
        rows |-> csv_dir[stem \o ExtCsv].rows]
  ELSE [exists |-> FALSE, header |-> <<>>, rows |-> <<>>]

\* Names a subcategory directory entry can have besides the reserved ones
Subcats == {"healthy", "scorch"}

\* category_root.iterdir(): the names present under the category root
Listing(f) ==
  (IF f.sets_exists THEN {"sets"} ELSE {})
    \cup (IF f.labelmap.exists THEN {"labelmap.json"} ELSE {})
    \cup {d \in Subcats : f.sub[d].kind # "absent"}

\* subcat_dir.is_dir()
IsDir(f, d) ==
  \/ d = "sets"
  \/ d \in Subcats /\ f.sub[d].kind = "dir"

\* A counter that advances by two
NextImageIdSkips(image_id) == image_id + 2

\* image_id_counter += 1
NextImageId(image_id) == image_id + 1

\* ann_id_counter += 1
NextAnnId(ann_id) == ann_id + 1

ImageRecord(image_id, subcategory_name, img_name, size) ==
  [id |-> image_id,
   file_name |-> <<CategoryName, subcategory_name, "images", img_name>>,
   width |-> size[1],
   height |-> size[2]]

\* An annotation that references the image after its own
AnnRecordNextImage(ann_id, image_id, box) ==
  [id |-> ann_id,
   image_id |-> image_id + 1,
   category_id |-> box.category_id,
   bbox |-> box.bbox,
   area |-> box.area,
   iscrowd |-> 0]

AnnRecord(ann_id, image_id, box) ==
  [id |-> ann_id,
   image_id |-> image_id,
   category_id |-> box.category_id,
   bbox |-> box.bbox,
   area |-> box.area,
   iscrowd |-> 0]

\* The annotations appended for one image: ids ann_id, ann_id + 1, ...
RECURSIVE AnnRecords(_, _, _)
AnnRecords(ann_id, image_id, boxes) ==
  IF boxes = <<>> THEN <<>>
  ELSE <<AnnRecord(ann_id, image_id, Head(boxes))>>
         \o AnnRecords(NextAnnId(ann_id), image_id, Tail(boxes))

RECURSIVE AnnCounterAfter(_, _)
AnnCounterAfter(ann_id, boxes) ==
  IF boxes = <<>> THEN ann_id
  ELSE AnnCounterAfter(NextAnnId(ann_id), Tail(boxes))

build_coco_dict(imgs, annotations, cats, description, url, year) ==
  [info |-> [year |-> year, version |-> "1.0.0",
             description |-> description, url |-> url],
   images |-> imgs,
   annotations |-> annotations,
   categories |-> cats,
   licenses |-> <<>>]

EmptyDoc == build_coco_dict(<<>>, <<>>, <<>>, <<>>, "", 0)

NoOutFile == [exists |-> FALSE, doc |-> EmptyDoc]

(***************************************************************************)
(* State                                                                   *)
(***************************************************************************)
VARIABLES
  fs,                \* the dataset under --root (read only)
  args_splits,       \* args.splits
  out_dir,           \* whether args.out exists
  out_files,         \* <category>_instances_<split>.json, per split
  out_src,           \* per written file: the CSV each annotation came from
  stdout,            \* what main printed
  pc,                \* where the process is
  exit_code,         \* exit status once pc = "exited"
  split_idx,         \* position of main's loop in args.splits
  categories,        \* the collector's locals
  image_stems,
  images,
  anns,
  ann_src,           \* per element of anns: [subcategory, stem] of its CSV
  image_id_counter,
  ann_id_counter,
  pending,           \* entries iterdir() has not yielded yet
  subcat,            \* subcategory_name of the directory being processed
  stems,             \* rest of sorted(image_stems & subcat_images)
  run,               \* how many times the tool was started
  prev_out           \* out_files as the previous run left them

vars ==
  <<fs, args_splits, out_dir, out_files, out_src, stdout, pc, exit_code,
    split_idx, categories, image_stems, images, anns, ann_src,
    image_id_counter, ann_id_counter, pending, subcat, stems, run, prev_out>>

locals ==
  <<categories, image_stems, images, anns, ann_src, image_id_counter,
    ann_id_counter, pending, subcat, stems>>

(***************************************************************************)
(* Inputs                                                                  *)
(***************************************************************************)
SeqsUpTo(S, n) == UNION {[1..k -> S] : k \in 0..n}

\* File names an images/ folder may hold: two extension variants of "a",
\* a .png and a .bmp of "b", and the dot file ".jpg"
ImageNames ==
  {<<"a">> \o ExtJpg, <<"a">> \o ExtPNG, <<"b">> \o ExtPng,
   <<"b">> \o ExtBmp, ExtJpg}

\* PlantVillage images are 256 x 256
ImagesDir(names) == [n \in names |-> <<256, 256>>]

ImageDirs == {ImagesDir(F) : F \in {G \in SUBSET ImageNames : Cardinality(G) <= MaxFiles}}

\* Lines a split file may hold
SplitLines == {<<"a">>, <<" ", "b", " ">>}

SplitFile(lines) == [exists |-> TRUE, lines |-> lines]

NoSplitFile == [exists |-> FALSE, lines |-> <<>>]

\* No file, a file with a blank line, a file that lists the stem of the
\* dot file ".jpg", and the files made of SplitLines
SplitFiles ==
  {NoSplitFile, SplitFile(<< <<" ">>, <<"b">> >>), SplitFile(<<ExtJpg, <<"a">> >>)}
    \cup {SplitFile(l) : l \in SeqsUpTo(SplitLines, MaxLines)}

\* Label map files
LabelItems == [label_id : 0..2, object_name : {"ripe", "unripe", "background"}]

LabelmapFile(items) == [exists |-> TRUE, items |-> items]

NoLabelmapFile == [exists |-> FALSE, items |-> <<>>]

StrawberryLabelmap ==
  LabelmapFile(<<[label_id |-> 1, object_name |-> "ripe"],
                 [label_id |-> 2, object_name |-> "unripe"],
                 [label_id |-> 0, object_name |-> "background"]>>)

LabelmapFiles ==
  {NoLabelmapFile, StrawberryLabelmap}
    \cup {LabelmapFile(items) : items \in SeqsUpTo(LabelItems, MaxLabels)}

\* CSV files
FullHeader == <<"x", "y", "width", "height", "label">>

NoLabelHeader == <<"x", "y", "width", "height">>

GoodRow == << <<"2">>, <<"3">>, <<"4">>, <<"5">>, <<"1">> >>

\* Rows: well formed, non-positive sizes, unparsable cells, a decimal and a
\* padded label, rows shorter and longer than the header, a blank line
CsvRows ==
  {GoodRow,
   [GoodRow EXCEPT ![3] = <<"0">>],
   [GoodRow EXCEPT ![4] = <<"-", "3">>],
   [GoodRow EXCEPT ![3] = <<"x">>],
   [GoodRow EXCEPT ![3] = <<"1", ".", "5">>],
   [GoodRow EXCEPT ![5] = <<"1", ".", "5">>],
   [GoodRow EXCEPT ![5] = <<>>],
   [GoodRow EXCEPT ![5] = <<" ", "2">>],
   SubSeq(GoodRow, 1, 4),
   << <<"x">>, <<"3">>, <<"4">> >>,
   GoodRow \o << <<"9">> >>,
   <<>>}

Csv(header, rows) == [header |-> header, rows |-> rows]

CsvContents ==
  {Csv(h, r) : h \in {FullHeader, NoLabelHeader}, r \in SeqsUpTo(CsvRows, MaxRows)}

\* A csv/ folder that is always well formed: a.csv has two boxes around a
\* zero-width row, the second with a label that is in no label map, and
\* b.csv has one box
PlainCsvDir ==
  ((<<"a">> \o ExtCsv) :>
      Csv(FullHeader, <<GoodRow,
                        [GoodRow EXCEPT ![3] = <<"0">>],
                        [GoodRow EXCEPT ![5] = <<"9">>]>>))
  @@ ((<<"b">> \o ExtCsv) :>
      Csv(FullHeader, <<[GoodRow EXCEPT ![5] = <<"2">>]>>))

\* a.csv only
CsvDirOfA(content) == (<<"a">> \o ExtCsv) :> content

NoCsvDir == [n \in {} |-> Csv(<<>>, <<>>)]

Subdir(images_dir, csv_dir) ==
  [kind |-> "dir", has_images |-> TRUE, images |-> images_dir, csv |-> csv_dir]

NoImagesSubdir ==
  [kind |-> "dir", has_images |-> FALSE, images |-> ImagesDir({}), csv |-> PlainCsvDir]

PlainFile ==
  [kind |-> "file", has_images |-> FALSE, images |-> ImagesDir({}), csv |-> NoCsvDir]

Absent ==
  [kind |-> "absent", has_images |-> FALSE, images |-> ImagesDir({}), csv |-> NoCsvDir]

Dataset(labelmap, train, healthy, scorch) ==
  [root_exists |-> TRUE,
   sets_exists |-> TRUE,
   labelmap |-> labelmap,
   splits |-> [s \in SplitChoices |->
                 IF s = "train" THEN train
                 ELSE IF s = "val" THEN SplitFile(<< <<"b">> >>)
                 ELSE NoSplitFile],
   sub |-> [d \in Subcats |-> IF d = "healthy" THEN healthy ELSE scorch]]

NoDataset ==
  [root_exists |-> FALSE,
   sets_exists |-> FALSE,
   labelmap |-> NoLabelmapFile,
   splits |-> [s \in SplitChoices |-> NoSplitFile],
   sub |-> [d \in Subcats |-> Absent]]

PlainHealthy ==
  Subdir(ImagesDir({<<"a">> \o ExtJpg, <<"b">> \o ExtPng}), PlainCsvDir)

\* b.png has no CSV file
PlainScorch ==
  Subdir(ImagesDir({<<"a">> \o ExtPNG, <<"b">> \o ExtPng}),
         CsvDirOfA(Csv(FullHeader, <<GoodRow>>)))

PlainTrain == SplitFile(<< <<"a">>, <<"b">> >>)

\* Directory trees and split lists, with well-formed CSV files
TreeDatasets ==
  {Dataset(StrawberryLabelmap, t, h, s) :
     t \in SplitFiles,
     h \in {NoImagesSubdir} \cup {Subdir(i, PlainCsvDir) : i \in ImageDirs},
     s \in {Absent, PlainFile, NoImagesSubdir, PlainScorch}}

\* CSV contents of one image
CsvDatasets ==
  {Dataset(StrawberryLabelmap, SplitFile(<< <<"a">> >>),
           Subdir(ImagesDir({<<"a">> \o ExtJpg}), CsvDirOfA(c)), Absent) :
     c \in CsvContents}

\* Label maps
LabelmapDatasets ==
  {Dataset(l, PlainTrain, Subdir(ImagesDir({<<"a">> \o ExtJpg}), PlainCsvDir), Absent) :
     l \in LabelmapFiles}

PlainDataset == Dataset(StrawberryLabelmap, PlainTrain, PlainHealthy, PlainScorch)

\* --splits values tried on the plain dataset
SplitArgs == {DefaultSplits, <<"val", "train">>, <<"train", "train">>}

Init ==
  /\ \/ fs = NoDataset /\ args_splits \in {<<"train">>, DefaultSplits}
     \/ fs \in TreeDatasets /\ args_splits = <<"train">>
     \/ fs \in CsvDatasets /\ args_splits = <<"train">>
     \/ fs \in LabelmapDatasets /\ args_splits = <<"train">>
     \/ /\ fs \in {PlainDataset,
                    Dataset(NoLabelmapFile, PlainTrain, PlainHealthy, PlainScorch)}
        /\ args_splits \in SplitArgs
  /\ out_dir = FALSE
  /\ out_files = [s \in SplitChoices |-> NoOutFile]
  /\ out_src = [s \in SplitChoices |-> <<>>]
  /\ stdout = <<>>
  /\ pc = "main"
  /\ exit_code = 0
  /\ split_idx = 1
  /\ categories = <<>>
  /\ image_stems = {}
  /\ images = <<>>
  /\ anns = <<>>
  /\ ann_src = <<>>
  /\ image_id_counter = 1
  /\ ann_id_counter = 1
  /\ pending = {}
  /\ subcat = ""
  /\ stems = <<>>
  /\ run = 1
  /\ prev_out = [s \in SplitChoices |-> NoOutFile]

(***************************************************************************)
(* main                                                                    *)
(***************************************************************************)
\* A driver that does not look for the category root
CategoryRootNeverMissing(f) == FALSE

\* if not category_root.exists()
CategoryRootMissing(f) == ~f.root_exists

\* args.out.mkdir(...); category root absent: print the error, sys.exit(1)
MainRootMissing ==
  /\ pc = "main"
  /\ CategoryRootMissing(fs)
  /\ out_dir' = TRUE
  /\ stdout' = Append(stdout, [kind |-> "error", category |-> CategoryName])
  /\ exit_code' = 1
  /\ pc' = "exited"
  /\ UNCHANGED <<fs, args_splits, out_files, out_src, split_idx, locals, run, prev_out>>

\* args.out.mkdir(...); category root present: enter the loop over the splits
MainStart ==
  /\ pc = "main"
  /\ ~CategoryRootMissing(fs)
  /\ out_dir' = TRUE
  /\ split_idx' = 1
  /\ pc' = "split"
  /\ UNCHANGED <<fs, args_splits, out_files, out_src, stdout, exit_code, locals, run, prev_out>>

(***************************************************************************)
(* collect_annotations_for_category                                        *)
(***************************************************************************)
\* Everything before the loop over the directory entries
CollectBegin ==
  /\ pc = "split"
  /\ LET split == args_splits[split_idx]
         id_to_name == load_labelmap(fs.labelmap)
         names == read_split_list(fs.splits[split])
     IN /\ image_stems' = {names[i] : i \in 1..Len(names)}
        /\ categories' = CategoryList(id_to_name, DOMAIN id_to_name, CategoryName)
  /\ images' = <<>>
  /\ anns' = <<>>
  /\ ann_src' = <<>>
  /\ image_id_counter' = 1
  /\ ann_id_counter' = 1
  /\ pending' = Listing(fs)
  /\ subcat' = ""
  /\ stems' = <<>>
  /\ pc' = "iterdir"
  /\ UNCHANGED <<fs, args_splits, out_dir, out_files, out_src, stdout, exit_code, split_idx, run, prev_out>>

\* iterdir() yields d, which is not a directory or is the sets directory
SkipEntry(d) ==
  /\ pc = "iterdir"
  /\ d \in pending
  /\ ~IsDir(fs, d) \/ d = "sets"
  /\ pending' = pending \ {d}
  /\ UNCHANGED <<fs, args_splits, out_dir, out_files, out_src, stdout, pc, exit_code, split_idx,
                 categories, image_stems, images, anns, ann_src, image_id_counter,
                 ann_id_counter, subcat, stems, run, prev_out>>

\* iterdir() yields a directory d without an images/ folder
SkipNoImages(d) ==
  /\ pc = "iterdir"
  /\ d \in pending
  /\ IsDir(fs, d) /\ d # "sets"
  /\ ~fs.sub[d].has_images
  /\ pending' = pending \ {d}
  /\ UNCHANGED <<fs, args_splits, out_dir, out_files, out_src, stdout, pc, exit_code, split_idx,
                 categories, image_stems, images, anns, ann_src, image_id_counter,
                 ann_id_counter, subcat, stems, run, prev_out>>

\* iterdir() yields a subcategory d: glob its images and sort the stems that
\* are in the split
EnterSubcat(d) ==
  /\ pc = "iterdir"
  /\ d \in pending
  /\ IsDir(fs, d) /\ d # "sets"
  /\ fs.sub[d].has_images
  /\ pending' = pending \ {d}
  /\ subcat' = d
  /\ stems' = SelectedStems(image_stems, SubcatImages(DOMAIN fs.sub[d].images))
  /\ pc' = "stems"
  /\ UNCHANGED <<fs, args_splits, out_dir, out_files, out_src, stdout, exit_code, split_idx,
                 categories, image_stems, images, anns, ann_src, image_id_counter,
                 ann_id_counter, run, prev_out>>

\* No file stem + ext exists for any of the six extensions: continue
SkipUnresolved ==
  /\ pc = "stems"
  /\ stems # <<>>
  /\ Resolve(DOMAIN fs.sub[subcat].images, Head(stems)) = <<>>
  /\ stems' = Tail(stems)
  /\ UNCHANGED <<fs, args_splits, out_dir, out_files, out_src, stdout, pc, exit_code, split_idx,
                 categories, image_stems, images, anns, ann_src, image_id_counter,
                 ann_id_counter, pending, subcat, run, prev_out>>

\* One image: its record, then one annotation per box of its CSV file
EmitImage ==
  /\ pc = "stems"
  /\ stems # <<>>
  /\ LET stem == Head(stems)
         img_name == Resolve(DOMAIN fs.sub[subcat].images, stem)
         parsed == parse_csv_boxes(CsvFile(fs.sub[subcat].csv, stem))
     IN /\ img_name # <<>>
        /\ ~parsed.raised
        /\ images' = Append(images,
             ImageRecord(image_id_counter, subcat, img_name, fs.sub[subcat].images[img_name]))
        /\ anns' = anns \o AnnRecords(ann_id_counter, image_id_counter, parsed.boxes)
        /\ ann_src' = ann_src \o
             [i \in 1..Len(parsed.boxes) |-> [subcategory |-> subcat, stem |-> stem]]
        /\ ann_id_counter' = AnnCounterAfter(ann_id_counter, parsed.boxes)
        /\ image_id_counter' = NextImageId(image_id_counter)
  /\ stems' = Tail(stems)
  /\ UNCHANGED <<fs, args_splits, out_dir, out_files, out_src, stdout, pc, exit_code, split_idx,
                 categories, image_stems, pending, subcat, run, prev_out>>

\* parse_csv_boxes raises an exception its except clause does not name; it
\* passes through the collector and main, and the interpreter exits with 1
AbortOnRow ==
  /\ pc = "stems"
  /\ stems # <<>>
  /\ LET stem == Head(stems)
     IN /\ Resolve(DOMAIN fs.sub[subcat].images, stem) # <<>>
        /\ parse_csv_boxes(CsvFile(fs.sub[subcat].csv, stem)).raised
  /\ stdout' = Append(stdout, [kind |-> "traceback", category |-> CategoryName])
  /\ exit_code' = 1
  /\ pc' = "crashed"
  /\ UNCHANGED <<fs, args_splits, out_dir, out_files, out_src, split_idx, locals, run, prev_out>>

\* The sorted stems of the subcategory are exhausted
LeaveSubcat ==
  /\ pc = "stems"
  /\ stems = <<>>
  /\ subcat' = ""
  /\ pc' = "iterdir"
  /\ UNCHANGED <<fs, args_splits, out_dir, out_files, out_src, stdout, exit_code, split_idx,
                 categories, image_stems, images, anns, ann_src, image_id_counter,
                 ann_id_counter, pending, stems, run, prev_out>>

\* The collector returns; main builds the document, writes it and reports
WriteSplit ==
  /\ pc = "iterdir"
  /\ pending = {}
  /\ LET split == args_splits[split_idx]
         coco == build_coco_dict(images, anns, categories,
                   <<"PlantVillage", CategoryName, split, "split">>,
                   "https://www.kaggle.com/datasets/abdallahalidev/plantvillage-dataset",
                   2015)
     IN /\ out_files' = [out_files EXCEPT ![split] = [exists |-> TRUE, doc |-> coco]]
        /\ out_src' = [out_src EXCEPT ![split] = ann_src]
        /\ stdout' = Append(stdout, [kind |-> "generated", split |-> split,
                                     images |-> Len(images), annotations |-> Len(anns)])
  /\ IF split_idx < Len(args_splits)
     THEN /\ split_idx' = split_idx + 1
          /\ pc' = "split"
          /\ UNCHANGED exit_code
     ELSE /\ UNCHANGED split_idx
          /\ pc' = "exited"
          /\ exit_code' = 0
  /\ UNCHANGED <<fs, args_splits, out_dir, locals, run, prev_out>>

\* The tool is started again on the same, unchanged dataset
Rerun ==
  /\ pc = "exited"
  /\ exit_code = 0
  /\ run < MaxRuns
  /\ run' = run + 1
  /\ prev_out' = out_files
  /\ stdout' = <<>>
  /\ pc' = "main"
  /\ UNCHANGED <<fs, args_splits, out_dir, out_files, out_src, exit_code, split_idx, locals>>

Next ==
  \/ MainRootMissing
  \/ MainStart
  \/ CollectBegin
  \/ \E d \in pending : SkipEntry(d)
  \/ \E d \in pending : SkipNoImages(d)
  \/ \E d \in pending : EnterSubcat(d)
  \/ SkipUnresolved
  \/ EmitImage
  \/ AbortOnRow
  \/ LeaveSubcat
  \/ WriteSplit
  \/ Rerun

Spec == Init /\ [][Next]_vars

(***************************************************************************)
(* Properties                                                              *)
(***************************************************************************)
Written(s) == out_files[s].exists

Doc(s) == out_files[s].doc

Collecting == pc \in {"iterdir", "stems"}

IdsAreOneToN(records) == \A k \in 1..Len(records) : records[k].id = k

\* The subcategory and the file name an image record names
SubcatOf(image) == image.file_name[2]

NameOf(image) == image.file_name[4]

\* The base names a split file lists
Listed(s) ==
  {Strip(fs.splits[s].lines[k]) : k \in 1..Len(fs.splits[s].lines)} \ {<<>>}

\* The annotations of a document that reference image id i
AnnsOf(doc, i) == {k \in 1..Len(doc.annotations) : doc.annotations[k].image_id = i}

\* C1: in every document, and in the collector's lists while it builds
\* one, the k-th image record has id k and the k-th annotation record has
\* id k; each counter is one more than the number of records emitted.
C1_IdsContiguous ==
  /\ \A s \in SplitChoices :
       Written(s) => IdsAreOneToN(Doc(s).images) /\ IdsAreOneToN(Doc(s).annotations)
  /\ Collecting =>
       /\ IdsAreOneToN(images) /\ image_id_counter = Len(images) + 1
       /\ IdsAreOneToN(anns) /\ ann_id_counter = Len(anns) + 1

\* A document with images of two subcategories, a skipped stem aside
C1_Witness ==
  \E s \in SplitChoices :
    /\ Written(s)
    /\ Len(Doc(s).images) >= 3
    /\ Len(Doc(s).annotations) >= 3
    /\ \E i, j \in 1..Len(Doc(s).images) : SubcatOf(Doc(s).images[i]) # SubcatOf(Doc(s).images[j])

\* C2: every annotation's image_id is the id of exactly one image record of
\* the same document, and that record is the image (subcategory and base
\* name) whose CSV file the annotation's box was parsed from.
C2_AnnotationOwnsImage ==
  \A s \in SplitChoices :
    Written(s) =>
      \A k \in 1..Len(Doc(s).annotations) :
        LET owners == {i \in 1..Len(Doc(s).images) :
                         Doc(s).images[i].id = Doc(s).annotations[k].image_id}
        IN /\ Cardinality(owners) = 1
           /\ \A i \in owners :
                /\ SubcatOf(Doc(s).images[i]) = out_src[s][k].subcategory
                /\ PathStem(NameOf(Doc(s).images[i])) = out_src[s][k].stem

\* Annotations of two images of different subcategories in one document
C2_Witness ==
  \E s \in SplitChoices :
    /\ Written(s)
    /\ \E k, l \in 1..Len(Doc(s).annotations) :
         /\ out_src[s][k].subcategory # out_src[s][l].subcategory
         /\ Doc(s).annotations[k].image_id # Doc(s).annotations[l].image_id

\* C3: a second run on the unchanged dataset leaves every output file as
\* the first run wrote it.
C3_RerunIdentical ==
  (run > 1 /\ pc = "exited" /\ exit_code = 0) => out_files = prev_out

\* The number of rows of a CSV file that are well formed (every field
\* present or defaulted, and parsable) with positive width and height
GoodRows(csv_file) ==
  Cardinality({r \in 1..Len(csv_file.rows) :
     /\ csv_file.rows[r] # <<>>
     /\ \A i \in 1..5 : FieldOutcomes(csv_file.header, csv_file.rows[r])[i] = "ok"
     /\ Positive(FloatOf(RowGet(csv_file.header, csv_file.rows[r], "width")))
     /\ Positive(FloatOf(RowGet(csv_file.header, csv_file.rows[r], "height")))})

CsvOf(image) == CsvFile(fs.sub[SubcatOf(image)].csv, PathStem(NameOf(image)))

\* C4: no row makes parse_csv_boxes leave the file: the run is never
\* aborted by a row, and every image of a document has one annotation per
\* well-formed row of its CSV file.
C4_BadRowsSkipped ==
  /\ pc # "crashed"
  /\ \A s \in SplitChoices :
       Written(s) =>
         \A i \in 1..Len(Doc(s).images) :
           Cardinality(AnnsOf(Doc(s), Doc(s).images[i].id)) = GoodRows(CsvOf(Doc(s).images[i]))

RecognizedExts == {ResolveExts[i] : i \in 1..Len(ResolveExts)}

\* C5: every image record of a split's document names a file that exists
\* in the images/ folder of its subcategory, has one of the six extensions
\* and a base name the split's list holds; no subcategory and base name
\* appear in two records of one document.
C5_ImagesListedAndOnDisk ==
  \A s \in SplitChoices :
    Written(s) =>
      /\ \A i \in 1..Len(Doc(s).images) :
           LET image == Doc(s).images[i] IN
             /\ SubcatOf(image) \in Subcats
             /\ fs.sub[SubcatOf(image)].kind = "dir"
             /\ fs.sub[SubcatOf(image)].has_images
             /\ NameOf(image) \in DOMAIN fs.sub[SubcatOf(image)].images
             /\ \E ext \in RecognizedExts, stem \in Listed(s) : NameOf(image) = stem \o ext
      /\ \A i, j \in 1..Len(Doc(s).images) :
           (/\ SubcatOf(Doc(s).images[i]) = SubcatOf(Doc(s).images[j])
            /\ PathStem(NameOf(Doc(s).images[i])) = PathStem(NameOf(Doc(s).images[j])))
             => i = j

\* A document with an image of a stem that has two extension variants and
\* two lines in the split file, beside a file on disk that is not listed
C5_Witness ==
  \E s \in SplitChoices :
    /\ Written(s)
    /\ \E i \in 1..Len(Doc(s).images) :
         LET image == Doc(s).images[i]
             names == DOMAIN fs.sub[SubcatOf(image)].images
         IN /\ \E n \in names : n # NameOf(image) /\ PathStem(n) = PathStem(NameOf(image))
            /\ \E k, l \in 1..Len(fs.splits[s].lines) :
                 k # l /\ Strip(fs.splits[s].lines[k]) = Strip(fs.splits[s].lines[l])
    /\ \E n \in DOMAIN fs.sub["scorch"].images :
         /\ \E suffix \in GlobSuffixes : EndsWith(n, suffix)
         /\ PathStem(n) \notin Listed(s)

SpecSupercategory == <<"s", "t", "r", "a", "w", "b", "e", "r", "r">>

StrippedSupercategory == <<"s", "t", "r", "a", "w", "b", "e", "r", "r", "i", "e">>

RipeUnripe(supercategory) ==
  <<[id |-> 1, name |-> "ripe", supercategory |-> supercategory],
    [id |-> 2, name |-> "unripe", supercategory |-> supercategory]>>

\* C6 as stated: with the label map ripe, unripe, background the categories
\* are ids 1 and 2 in that order, each with supercategory "strawberr".
C6_SupercategoryStrawberr ==
  \A s \in SplitChoices :
    (Written(s) /\ fs.labelmap = StrawberryLabelmap)
      => Doc(s).categories = RipeUnripe(SpecSupercategory)

\* C6 as amended: with the label map ripe, unripe, background the
\* categories are ids 1 and 2 in that order, each with supercategory
\* "strawberrie", the category name without its one trailing "s".
C6_SupercategoryStrawberrie ==
  \A s \in SplitChoices :
    (Written(s) /\ fs.labelmap = StrawberryLabelmap)
      => Doc(s).categories = RipeUnripe(StrippedSupercategory)

C6_Witness ==
  \E s \in SplitChoices :
    Written(s) /\ fs.labelmap = StrawberryLabelmap /\ Len(Doc(s).annotations) > 0

\* The label-map entries that are not the background entry, in file order
NonBackground == SelectSeq(fs.labelmap.items, LAMBDA item : item.object_name # "background")

\* C7 as stated: the categories are exactly one entry (label_id,
\* object_name) per non-background entry of the label map, in ascending
\* label_id order.
C7_OnePerEntry ==
  \A s \in SplitChoices :
    Written(s) =>
      LET cats == Doc(s).categories IN
        /\ Len(cats) = Len(NonBackground)
        /\ \A k \in 1..Len(NonBackground) :
             \E j \in 1..Len(cats) :
               /\ cats[j].id = NonBackground[k].label_id
               /\ cats[j].name = NonBackground[k].object_name
        /\ \A i, j \in 1..Len(cats) : i < j => cats[i].id <= cats[j].id

\* C7 as amended: the categories are exactly one entry per distinct
\* label_id of the non-background entries of the label map, named by the
\* last such entry in the file, in strictly ascending label_id order,
\* whatever the boxes are.
C7_OnePerLabelId ==
  \A s \in SplitChoices :
    Written(s) =>
      LET cats == Doc(s).categories IN
        /\ {cats[j].id : j \in 1..Len(cats)}
             = {NonBackground[k].label_id : k \in 1..Len(NonBackground)}
        /\ \A j \in 1..Len(cats) :
             \E k \in 1..Len(NonBackground) :
               /\ cats[j].id = NonBackground[k].label_id
               /\ cats[j].name = NonBackground[k].object_name
               /\ \A l \in (k + 1)..Len(NonBackground) :
                    NonBackground[l].label_id # cats[j].id
        /\ \A i, j \in 1..Len(cats) : i < j => cats[i].id < cats[j].id

\* A document for a label map whose two entries share a label_id under
\* different names, with a box whose label the label map does not hold
C7_Witness ==
  \E s \in SplitChoices :
    /\ Written(s)
    /\ Len(NonBackground) = 2
    /\ NonBackground[1].label_id = NonBackground[2].label_id
    /\ NonBackground[1].object_name # NonBackground[2].object_name
    /\ \E k \in 1..Len(Doc(s).annotations) :
         \A j \in 1..Len(Doc(s).categories) :
           Doc(s).categories[j].id # Doc(s).annotations[k].category_id

\* C8: without the category root the process never enters the collector
\* and writes no output file; once it has exited, its status is 1 and it
\* has printed the error.
C8_RootMissingExits ==
  ~fs.root_exists =>
    /\ pc \in {"main", "exited"}
    /\ \A s \in SplitChoices : ~Written(s)
    /\ pc = "exited" =>
         /\ exit_code = 1
         /\ \E i \in 1..Len(stdout) : stdout[i].kind = "error"

C8_Witness == ~fs.root_exists /\ pc = "exited" /\ Len(args_splits) = 3

\* The stems of a subcategory's images that a split's document must hold:
\* listed in the split file and matched by one of the four patterns
Expected(s, d) ==
  IF fs.sub[d].kind = "dir" /\ fs.sub[d].has_images
  THEN {stem \in Listed(s) :
          /\ \E suffix \in GlobSuffixes :
               \E n \in DOMAIN fs.sub[d].images : EndsWith(n, suffix) /\ PathStem(n) = stem
          /\ \E ext \in RecognizedExts : (stem \o ext) \in DOMAIN fs.sub[d].images}
  ELSE {}

\* C9: a missing split file gives a document without images and
\* annotations; a missing label map gives an empty categories list and
\* changes nothing else: every listed image on disk has its record, with one
\* annotation per box of its CSV file; an image without a CSV file has its
\* record and no annotation; a run is aborted only at an image whose CSV
\* file exists; a run that exits with 0 has written every requested file.
C9_MissingFilesAreEmpty ==
  /\ \A s \in SplitChoices :
       Written(s) =>
         /\ ~fs.splits[s].exists => Doc(s).images = <<>> /\ Doc(s).annotations = <<>>
         /\ ~fs.labelmap.exists => Doc(s).categories = <<>>
         /\ \A d \in Subcats : \A stem \in Expected(s, d) :
              \E i \in 1..Len(Doc(s).images) :
                /\ SubcatOf(Doc(s).images[i]) = d
                /\ PathStem(NameOf(Doc(s).images[i])) = stem
         /\ \A i \in 1..Len(Doc(s).images) :
              /\ Doc(s).images[i].id = i
              /\ ~CsvOf(Doc(s).images[i]).exists => AnnsOf(Doc(s), i) = {}
              /\ Cardinality(AnnsOf(Doc(s), i)) = GoodRows(CsvOf(Doc(s).images[i]))
  /\ pc = "crashed" =>
       /\ CsvFile(fs.sub[subcat].csv, Head(stems)).exists
       /\ fs.splits[args_splits[split_idx]].exists
  /\ (pc = "exited" /\ exit_code = 0) =>
       \A k \in 1..Len(args_splits) : Written(args_splits[k])

\* No label map, no test split file, and in the train document an image
\* without a CSV file after an image with annotations
C9_Witness ==
  /\ ~fs.labelmap.exists
  /\ Written("test") /\ ~fs.splits["test"].exists
  /\ Written("train")
  /\ \E i \in 2..Len(Doc("train").images) :
       /\ ~CsvOf(Doc("train").images[i]).exists
       /\ AnnsOf(Doc("train"), i - 1) # {}

\* The rows of a CSV file whose width and height cells are both positive
\* numbers
PositiveRows(csv_file) ==
  Cardinality({r \in 1..Len(csv_file.rows) :
     LET w == RowGet(csv_file.header, csv_file.rows[r], "width")
         h == RowGet(csv_file.header, csv_file.rows[r], "height")
     IN /\ w.kind = "text" /\ IsFloatText(w.text) /\ FloatVal(w.text).m > 0
        /\ h.kind = "text" /\ IsFloatText(h.text) /\ FloatVal(h.text).m > 0})

\* C10: every annotation of every document has width > 0 and height > 0,
\* annotation ids are 1..n, and an image has no more annotations than its
\* CSV file has rows with positive width and height.
C10_PositiveBoxes ==
  \A s \in SplitChoices :
    Written(s) =>
      /\ \A k \in 1..Len(Doc(s).annotations) :
           /\ Doc(s).annotations[k].bbox[3].m > 0
           /\ Doc(s).annotations[k].bbox[4].m > 0
           /\ Doc(s).annotations[k].id = k
      /\ \A i \in 1..Len(Doc(s).images) :
           Cardinality(AnnsOf(Doc(s), Doc(s).images[i].id)) <= PositiveRows(CsvOf(Doc(s).images[i]))

\* A document whose first image has a CSV file with a negative height row
\* before a row that gave annotation 1
C10_Witness ==
  \E s \in SplitChoices :
    /\ Written(s)
    /\ Len(Doc(s).images) > 0
    /\ Len(CsvOf(Doc(s).images[1]).rows) = 2
    /\ LET h == RowGet(CsvOf(Doc(s).images[1]).header, CsvOf(Doc(s).images[1]).rows[1], "height")
       IN h.kind = "text" /\ IsFloatText(h.text) /\ FloatVal(h.text).m < 0
    /\ AnnsOf(Doc(s), 1) = {1}

====
